---- MODULE Spec2Model ----
(***************************************************************************)
(* Model of the Vault auto-unsealer (src/src/main.js).                     *)
(*                                                                         *)
(* The process runs main(), which starts one sweep (pollVaultNodes) at     *)
(* once and one more on every timer tick.  A sweep starts one              *)
(* reconciliation (checkAndUnseal) per configured target.  Every           *)
(* reconciliation is an async function: it runs up to its next await, and  *)
(* is resumed by the response (or the error) of the request it awaits.     *)
(* One action below is one such resumption.                                *)
(***************************************************************************)
EXTENDS Integers, Sequences, FiniteSets, TLC

\* ------------------------------------------------------------------ bounds
MaxTicks == 2        \* timer ticks modelled after startup
MaxRecs == 2         \* reconciliations started in one behaviour
MaxT == 3            \* largest threshold a target is configured with

\* --------------------------------------------------------------- constants
DefaultThreshold == 3    \* the `|| 3` of keysToUse

Primary == "primary"
Targets == {"A", "B"}

\* The configured target lists the model starts from (config.targetVaultAddrs).
TargetLists == {<< >>, <<"A">>, <<"A", "B">>, <<"A", "A">>}

\* A JSON object is a sequence of name/value members in insertion order.
Member(n, v) == [name |-> n, value |-> v]

\* The secrets the key path of the primary may hold.
KvChoices ==
    { << >>,
      << Member("1", "k2"), Member("0", "k1") >>,
      << Member("key1", "k1"), Member("key2", "k1"), Member("key3", "k3"),
         Member("key4", "k2") >> }

\* ----------------------------------------------------------------- helpers
Min(a, b) == IF a < b THEN a ELSE b

Range(s) == {s[i] : i \in 1..Len(s)}

IsPrefix(s, t) == Len(s) <= Len(t) /\ \A i \in 1..Len(s) : s[i] = t[i]

\* The member names that JavaScript treats as array indices.
IndexNames == {"0", "1", "2"}

MembersNamed(obj, n) == SelectSeq(obj, LAMBDA m : m.name = n)

\* Object.values(obj): the members whose names are array indices come first,
\* in ascending numeric order, then the other members in insertion order.
ObjectValues(obj) ==
    LET ordered == MembersNamed(obj, "0") \o MembersNamed(obj, "1")
                     \o MembersNamed(obj, "2")
                     \o SelectSeq(obj, LAMBDA m : m.name \notin IndexNames)
    IN  [i \in 1..Len(ordered) |-> ordered[i].value]

\* Array.prototype.slice(0, n) for n >= 0.
Slice(s, n) == SubSeq(s, 1, Min(n, Len(s)))

\* A seal status as a target reports it: sealed, and t when the target
\* sends it (hasT).
Status(sealed, hasT, t) == [sealed |-> sealed, hasT |-> hasT, t |-> t]

NoStatus == Status(FALSE, FALSE, 0)

\* statusRes.data.t || 3 : a missing t and a t of 0 are both falsy.
ThresholdOrDefault(st) ==
    IF st.hasT /\ st.t # 0 THEN st.t ELSE DefaultThreshold

\* Mutant of KeysToUse: the shares are taken from the end of the sequence.
KeysToUseFromEnd(unsealKeys, st) ==
    LET n == Min(ThresholdOrDefault(st), Len(unsealKeys))
    IN  SubSeq(unsealKeys, Len(unsealKeys) - n + 1, Len(unsealKeys))

\* unsealKeys.slice(0, statusRes.data.t || 3)
KeysToUse(unsealKeys, st) == Slice(unsealKeys, ThresholdOrDefault(st))

\* ------------------------------------------------------------------- state
VARIABLES
    targetVaultAddrs,   \* config.targetVaultAddrs, fixed at load
    started,            \* main() has run
    timerSet,           \* setInterval(pollVaultNodes, ...) is registered
    ticks,              \* timer ticks so far
    sweeps,             \* calls of pollVaultNodes so far
    warns,              \* "No target Vault addresses configured" warnings
    crashed,            \* an error left a reconciliation unhandled
    recs,               \* the reconciliations started so far, in start order
    kv,                 \* primary: the object stored at the key path
    tokenCtr,           \* primary: client tokens issued so far
    tgt                 \* targets: seal state held server-side

vars == << targetVaultAddrs, started, timerSet, ticks, sweeps, warns, crashed,
           recs, kv, tokenCtr, tgt >>


\* ------------------------------------------------------------ environment
\* A target as the unsealer sees it through /v1/sys/seal-status and
\* /v1/sys/unseal: it is sealed or not, holds the distinct shares it was
\* given, needs `need` of them (0: not initialised, no share unseals it) and
\* sends t in its responses or omits it.
Target(sealed, held, need, reportsT) ==
    [sealed |-> sealed, held |-> held, need |-> need, reportsT |-> reportsT]

TargetKinds ==
    {Target(TRUE, {}, n, TRUE) : n \in 0..MaxT} \cup {Target(TRUE, {}, 2, FALSE)}

\* GET {target}/v1/sys/seal-status -> {sealed, t, progress}
SealStatus(node) ==
    Status(node.sealed, node.reportsT, IF node.reportsT THEN node.need ELSE 0)

\* PUT {target}/v1/sys/unseal {key}: the state of the target after the share.
AfterShare(node, key) ==
    IF ~node.sealed \/ node.need = 0
    THEN node
    ELSE IF Cardinality(node.held \cup {key}) >= node.need
         THEN [node EXCEPT !.sealed = FALSE, !.held = {}]
         ELSE [node EXCEPT !.held = node.held \cup {key}]

Configured == Range(targetVaultAddrs)

RecIds == 1..Len(recs)

\* ---------------------------------------------------------- reconciliation
\* An awaited call of a reconciliation and how it ended: the probe, the read
\* of the JWT file, the login, the key retrieval, an unseal submission.
Call(kind, to, token, key) ==
    [kind |-> kind, to |-> to, token |-> token, key |-> key, result |-> "pending"]

\* Mutant of NewRec: the address is read from a variable shared by the
\* reconciliations of a sweep instead of the parameter.
NewRecSharedAddr(addr, sweep) ==
    [ target     |-> addr,
      sweep      |-> sweep,
      pc         |-> "probe",
      status     |-> NoStatus,
      token      |-> 0,
      unsealKeys |-> << >>,
      keysToUse  |-> << >>,
      idx        |-> 0,
      calls      |-> << Call("probe", targetVaultAddrs[1], 0, "") >>,
      outcome    |-> "none",
      failedAt   |-> "" ]

\* checkAndUnseal(targetAddr) up to its first await: the probe is issued.
NewRec(addr, sweep) ==
    [ target     |-> addr,
      sweep      |-> sweep,
      pc         |-> "probe",
      status     |-> NoStatus,
      token      |-> 0,
      unsealKeys |-> << >>,
      keysToUse  |-> << >>,
      idx        |-> 0,
      calls      |-> << Call("probe", addr, 0, "") >>,
      outcome    |-> "none",
      failedAt   |-> "" ]

\* The awaited call returns (or throws) `result`.
Returned(r, result) == [r EXCEPT !.calls[Len(r.calls)].result = result]

\* The next call is made and awaited at `pc`.
Await(r, c, pc) == [r EXCEPT !.calls = Append(@, c), !.pc = pc]

Finish(r, outcome, stage) ==
    [r EXCEPT !.pc = "done", !.outcome = outcome, !.failedAt = stage]

\* An error thrown at `stage` without the try/catch of checkAndUnseal: the
\* promise of the reconciliation rejects, nobody handles it and the process ends.
ThrowUncaught(i, stage, result) ==
    /\ recs' = [recs EXCEPT ![i] = Finish(Returned(@, result), "Threw", stage)]
    /\ crashed' = TRUE

\* An error thrown at `stage` inside checkAndUnseal: getPrimaryVaultToken and
\* getUnsealKeys log and rethrow, the catch of checkAndUnseal logs and ends the
\* reconciliation.
Throw(i, stage, result) ==
    /\ recs' = [recs EXCEPT ![i] = Finish(Returned(@, result), "Failed", stage)]
    /\ crashed' = crashed

\* Mutant of SubmitFrom: running out of shares is raised as an error.
SubmitFromOrThrow(r, n) ==
    IF n <= Len(r.keysToUse)
    THEN [Await(r, Call("unseal", r.target, 0, r.keysToUse[n]), "unseal")
            EXCEPT !.idx = n]
    ELSE Finish(r, "Failed", "unseal")

\* Mutant of SubmitFrom: only the first selected share is submitted.
SubmitOnlyFirst(r, n) ==
    IF n = 1 /\ n <= Len(r.keysToUse)
    THEN [Await(r, Call("unseal", r.target, 0, r.keysToUse[n]), "unseal")
            EXCEPT !.idx = n]
    ELSE Finish(r, "PartiallySubmitted", "")

\* Mutant of SubmitFrom: the last share is submitted again for as long as the
\* target answers sealed.
SubmitFromRetryLast(r, n) ==
    IF n <= Len(r.keysToUse)
    THEN [Await(r, Call("unseal", r.target, 0, r.keysToUse[n]), "unseal")
            EXCEPT !.idx = n]
    ELSE Await(r, Call("unseal", r.target, 0, r.keysToUse[Len(r.keysToUse)]), "unseal")

\* The for loop of checkAndUnseal at share number n: submit it, or fall out of
\* the loop when the selected shares are used up.
SubmitFrom(r, n) ==
    IF n <= Len(r.keysToUse)
    THEN [Await(r, Call("unseal", r.target, 0, r.keysToUse[n]), "unseal")
            EXCEPT !.idx = n]
    ELSE Finish(r, "PartiallySubmitted", "")

\* config.targetVaultAddrs.forEach(checkAndUnseal)
StartAll(sweep) ==
    [n \in 1..Len(targetVaultAddrs) |-> NewRec(targetVaultAddrs[n], sweep)]

\* Mutant of PollVaultNodes: the empty list is not filtered out, and the entry
\* left by splitting the empty string is reconciled like an address.
PollVaultNodesUnfiltered ==
    /\ sweeps' = sweeps + 1
    /\ IF Len(targetVaultAddrs) = 0
       THEN warns' = warns + 1 /\ recs' = Append(recs, NewRec("A", sweeps + 1))
       ELSE warns' = warns /\ recs' = recs \o StartAll(sweeps + 1)

\* pollVaultNodes(): warn and return on an empty list, else start
\* checkAndUnseal on every configured target.
PollVaultNodes ==
    /\ sweeps' = sweeps + 1
    /\ IF Len(targetVaultAddrs) = 0
       THEN warns' = warns + 1 /\ recs' = recs
       ELSE warns' = warns /\ recs' = recs \o StartAll(sweeps + 1)

\* ----------------------------------------------------------------- actions
\* Mutant of Main: the timer is armed but no sweep is run at startup.
MainWithoutSweep ==
    /\ ~started
    /\ started' = TRUE
    /\ timerSet' = TRUE
    /\ UNCHANGED << targetVaultAddrs, ticks, sweeps, warns, crashed, recs, kv,
                    tokenCtr, tgt >>

\* main(): one sweep at once, then the interval timer.
Main ==
    /\ ~started
    /\ started' = TRUE
    /\ PollVaultNodes
    /\ timerSet' = TRUE
    /\ UNCHANGED << targetVaultAddrs, ticks, crashed, kv, tokenCtr, tgt >>

\* Mutant of Tick: a tick is skipped while a reconciliation is still running.
TickUnlessRunning ==
    /\ timerSet
    /\ ~crashed
    /\ ticks < MaxTicks
    /\ Len(recs) + Len(targetVaultAddrs) <= MaxRecs
    /\ \A i \in RecIds : recs[i].pc = "done"
    /\ ticks' = ticks + 1
    /\ PollVaultNodes
    /\ UNCHANGED << targetVaultAddrs, started, timerSet, crashed, kv, tokenCtr, tgt >>

\* A tick of setInterval(pollVaultNodes, pollIntervalMs).
Tick ==
    /\ timerSet
    /\ ~crashed
    /\ ticks < MaxTicks
    /\ Len(recs) + Len(targetVaultAddrs) <= MaxRecs
    /\ ticks' = ticks + 1
    /\ PollVaultNodes
    /\ UNCHANGED << targetVaultAddrs, started, timerSet, crashed, kv, tokenCtr, tgt >>

\* Tick when the reconciliations of the sweep before have all finished, with
\* what has finished forgotten: the frames of the finished reconciliations
\* and their tokens are gone, and the counters stop at "a later sweep".
LiveTick ==
    /\ timerSet
    /\ ~crashed
    /\ \A i \in RecIds : recs[i].pc = "done"
    /\ ticks' = 1
    /\ sweeps' = 2
    /\ warns' = IF Len(targetVaultAddrs) = 0 THEN 1 ELSE warns
    /\ recs' = StartAll(2)
    /\ tokenCtr' = 0
    /\ UNCHANGED << targetVaultAddrs, started, timerSet, crashed, kv, tgt >>

\* Mutant of ProbeFails: an unreachable target is taken for a sealed one.
ProbeFailsTreatedAsSealed(i) ==
    /\ recs[i].pc = "probe"
    /\ recs' = [recs EXCEPT ![i] =
                  Await(Returned(@, "error"), Call("readFile", "fs", 0, ""), "readjwt")]
    /\ UNCHANGED << targetVaultAddrs, started, timerSet, ticks, sweeps, warns,
                    crashed, kv, tokenCtr, tgt >>

\* The probe fails: connection error or error response.
ProbeFails(i) ==
    /\ recs[i].pc = "probe"
    /\ Throw(i, "probe", "error")
    /\ UNCHANGED << targetVaultAddrs, started, timerSet, ticks, sweeps, warns,
                    kv, tokenCtr, tgt >>

\* Mutant of ProbeAnswers: the keys are fetched whatever the probe reports.
ProbeAnswersIgnoringSealed(i) ==
    /\ recs[i].pc = "probe"
    /\ LET st == SealStatus(tgt[recs[i].target])
       IN  recs' = [recs EXCEPT ![i] =
                      Await([Returned(@, IF st.sealed THEN "sealed" ELSE "unsealed")
                               EXCEPT !.status = st],
                            Call("readFile", "fs", 0, ""), "readjwt")]
    /\ UNCHANGED << targetVaultAddrs, started, timerSet, ticks, sweeps, warns,
                    crashed, kv, tokenCtr, tgt >>

\* The probe answers.  Sealed: getUnsealKeys -> getPrimaryVaultToken starts
\* reading the JWT file.  Not sealed: nothing more to do.
ProbeAnswers(i) ==
    /\ recs[i].pc = "probe"
    /\ LET st == SealStatus(tgt[recs[i].target])
       IN  recs' = [recs EXCEPT ![i] =
                      IF st.sealed
                      THEN Await([Returned(@, "sealed") EXCEPT !.status = st],
                                 Call("readFile", "fs", 0, ""), "readjwt")
                      ELSE Finish([Returned(@, "unsealed") EXCEPT !.status = st],
                                  "AlreadyUnsealed", "")]
    /\ UNCHANGED << targetVaultAddrs, started, timerSet, ticks, sweeps, warns,
                    crashed, kv, tokenCtr, tgt >>

\* fs.readFile(config.jwtTokenPath) fails.
JwtUnreadable(i) ==
    /\ recs[i].pc = "readjwt"
    /\ Throw(i, "readjwt", "error")
    /\ UNCHANGED << targetVaultAddrs, started, timerSet, ticks, sweeps, warns,
                    kv, tokenCtr, tgt >>

\* Mutant of JwtRead: the key path is requested without logging in.
JwtReadThenKeys(i) ==
    /\ recs[i].pc = "readjwt"
    /\ recs' = [recs EXCEPT ![i] =
                  Await(Returned(@, "jwt"), Call("getkeys", Primary, 0, ""), "getkeys")]
    /\ UNCHANGED << targetVaultAddrs, started, timerSet, ticks, sweeps, warns,
                    crashed, kv, tokenCtr, tgt >>

\* fs.readFile succeeds: the login request is posted.
JwtRead(i) ==
    /\ recs[i].pc = "readjwt"
    /\ recs' = [recs EXCEPT ![i] =
                  Await(Returned(@, "jwt"), Call("login", Primary, 0, ""), "login")]
    /\ UNCHANGED << targetVaultAddrs, started, timerSet, ticks, sweeps, warns,
                    crashed, kv, tokenCtr, tgt >>

\* Mutant of LoginFails: the key path is requested although the login gave
\* no token.
LoginFailsContinues(i) ==
    /\ recs[i].pc = "login"
    /\ \E result \in {"error", "notoken"} :
          recs' = [recs EXCEPT ![i] =
                     Await(Returned(@, result), Call("getkeys", Primary, 0, ""), "getkeys")]
    /\ UNCHANGED << targetVaultAddrs, started, timerSet, ticks, sweeps, warns,
                    crashed, kv, tokenCtr, tgt >>

\* The login is rejected, or its response carries no client token.
LoginFails(i) ==
    /\ recs[i].pc = "login"
    /\ \E result \in {"error", "notoken"} : Throw(i, "login", result)
    /\ UNCHANGED << targetVaultAddrs, started, timerSet, ticks, sweeps, warns,
                    kv, tokenCtr, tgt >>

\* Mutant of LoginAnswers: the token of the first login of the process is
\* kept and used by every reconciliation.
LoginAnswersCachedToken(i) ==
    /\ recs[i].pc = "login"
    /\ tokenCtr' = tokenCtr + 1
    /\ recs' = [recs EXCEPT ![i] =
                  Await([Returned(@, "token") EXCEPT !.token = 1],
                        Call("getkeys", Primary, 1, ""), "getkeys")]
    /\ UNCHANGED << targetVaultAddrs, started, timerSet, ticks, sweeps, warns,
                    crashed, kv, tgt >>

\* The login returns a fresh client token: the key path is requested with it.
LoginAnswers(i) ==
    /\ recs[i].pc = "login"
    /\ tokenCtr' = tokenCtr + 1
    /\ recs' = [recs EXCEPT ![i] =
                  Await([Returned(@, "token") EXCEPT !.token = tokenCtr + 1],
                        Call("getkeys", Primary, tokenCtr + 1, ""), "getkeys")]
    /\ UNCHANGED << targetVaultAddrs, started, timerSet, ticks, sweeps, warns,
                    crashed, kv, tgt >>

\* Mutant of KeysFail: a failed retrieval falls back to a share kept in memory.
KeysFailFallsBack(i) ==
    /\ recs[i].pc = "getkeys"
    /\ recs' = [recs EXCEPT ![i] =
                  SubmitFrom([Returned(@, "error") EXCEPT !.keysToUse = << "k1" >>], 1)]
    /\ UNCHANGED << targetVaultAddrs, started, timerSet, ticks, sweeps, warns,
                    crashed, kv, tokenCtr, tgt >>

\* The key retrieval fails, or its response has no data.data.data.
KeysFail(i) ==
    /\ recs[i].pc = "getkeys"
    /\ \E result \in {"error", "malformed"} : Throw(i, "getkeys", result)
    /\ UNCHANGED << targetVaultAddrs, started, timerSet, ticks, sweeps, warns,
                    kv, tokenCtr, tgt >>

\* Mutant of KeysAnswer: the selected shares are all submitted at once.
KeysAnswerAllAtOnce(i) ==
    /\ recs[i].pc = "getkeys"
    /\ LET unsealKeys == ObjectValues(kv)
           selected == KeysToUse(unsealKeys, recs[i].status)
           r == [Returned(recs[i], "keys") EXCEPT !.unsealKeys = unsealKeys,
                                                   !.keysToUse = selected]
       IN  IF Len(unsealKeys) = 0
           THEN Throw(i, "getkeys", "nokeys")
           ELSE /\ recs' = [recs EXCEPT ![i] =
                              [r EXCEPT !.pc = "unseal", !.idx = Len(selected),
                                        !.calls = r.calls \o
                                           [n \in 1..Len(selected) |->
                                              Call("unseal", r.target, 0, selected[n])]]]
                /\ crashed' = crashed
    /\ UNCHANGED << targetVaultAddrs, started, timerSet, ticks, sweeps, warns,
                    kv, tokenCtr, tgt >>

\* The key retrieval returns the stored object.  No values: error.  Else the
\* shares are selected and the first one is submitted.
KeysAnswer(i) ==
    /\ recs[i].pc = "getkeys"
    /\ LET unsealKeys == ObjectValues(kv)
       IN  IF Len(unsealKeys) = 0
           THEN Throw(i, "getkeys", "nokeys")
           ELSE /\ recs' = [recs EXCEPT ![i] =
                              SubmitFrom([Returned(@, "keys") EXCEPT
                                  !.unsealKeys = unsealKeys,
                                  !.keysToUse = KeysToUse(unsealKeys, recs[i].status)], 1)]
                /\ crashed' = crashed
    /\ UNCHANGED << targetVaultAddrs, started, timerSet, ticks, sweeps, warns,
                    kv, tokenCtr, tgt >>

\* Mutant of UnsealFails: a failed submission is skipped and the next share
\* is submitted.
UnsealFailsContinues(i) ==
    /\ recs[i].pc = "unseal"
    /\ recs' = [recs EXCEPT ![i] = SubmitFrom(Returned(@, "error"), @.idx + 1)]
    /\ UNCHANGED << targetVaultAddrs, started, timerSet, ticks, sweeps, warns,
                    crashed, kv, tokenCtr, tgt >>

\* An unseal submission fails: connection error or error response.
UnsealFails(i) ==
    /\ recs[i].pc = "unseal"
    /\ Throw(i, "unseal", "error")
    /\ UNCHANGED << targetVaultAddrs, started, timerSet, ticks, sweeps, warns,
                    kv, tokenCtr, tgt >>

\* An unseal submission is answered with the seal state after the share.
\* Not sealed: break.  Sealed: log the progress, next share.
UnsealAnswers(i) ==
    /\ recs[i].pc = "unseal"
    /\ LET r == recs[i]
           node == AfterShare(tgt[r.target], r.calls[Len(r.calls)].key)
       IN  /\ tgt' = [tgt EXCEPT ![r.target] = node]
           /\ recs' = [recs EXCEPT ![i] =
                         IF ~node.sealed
                         THEN Finish(Returned(r, "unsealed"), "Unsealed", "")
                         ELSE SubmitFrom(Returned(r, "sealed"), r.idx + 1)]
    /\ UNCHANGED << targetVaultAddrs, started, timerSet, ticks, sweeps, warns,
                    crashed, kv, tokenCtr >>

\* A pending call of reconciliation i returns or throws.
RecStep(i) ==
    \/ ProbeFails(i)
    \/ ProbeAnswers(i)
    \/ JwtUnreadable(i)
    \/ JwtRead(i)
    \/ LoginFails(i)
    \/ LoginAnswers(i)
    \/ KeysFail(i)
    \/ KeysAnswer(i)
    \/ UnsealFails(i)
    \/ UnsealAnswers(i)

\* Somebody else unseals a target.
ExternalUnseal(a) ==
    /\ tgt[a].sealed
    /\ tgt' = [tgt EXCEPT ![a].sealed = FALSE, ![a].held = {}]
    /\ UNCHANGED << targetVaultAddrs, started, timerSet, ticks, sweeps, warns,
                    crashed, recs, kv, tokenCtr >>

\* The operator rotates the keys stored at the primary.
Rotate ==
    /\ \E obj \in KvChoices \ {kv} : kv' = obj
    /\ UNCHANGED << targetVaultAddrs, started, timerSet, ticks, sweeps, warns,
                    crashed, recs, tokenCtr, tgt >>

\* ----------------------------------------------------------- specification
Init ==
    /\ targetVaultAddrs \in TargetLists
    /\ started = FALSE
    /\ timerSet = FALSE
    /\ ticks = 0
    /\ sweeps = 0
    /\ warns = 0
    /\ crashed = FALSE
    /\ recs = << >>
    /\ kv \in KvChoices
    /\ tokenCtr = 0
    /\ tgt \in [Targets -> TargetKinds]
    /\ "A" \notin Range(targetVaultAddrs) => tgt["A"] = Target(TRUE, {}, 2, TRUE)
    /\ tgt["B"] = Target(TRUE, {}, 2, TRUE)

Next ==
    \/ Main
    \/ Tick
    \/ \E i \in RecIds : ProbeFails(i)
    \/ \E i \in RecIds : ProbeAnswers(i)
    \/ \E i \in RecIds : JwtUnreadable(i)
    \/ \E i \in RecIds : JwtRead(i)
    \/ \E i \in RecIds : LoginFails(i)
    \/ \E i \in RecIds : LoginAnswers(i)
    \/ \E i \in RecIds : KeysFail(i)
    \/ \E i \in RecIds : KeysAnswer(i)
    \/ \E i \in RecIds : UnsealFails(i)
    \/ \E i \in RecIds : UnsealAnswers(i)
    \/ \E a \in Configured : ExternalUnseal(a)
    \/ Rotate

Spec == Init /\ [][Next]_vars

\* Every network call and file read eventually returns or throws: a
\* reconciliation that waits is eventually resumed.
FairSpec == Init /\ [][Next]_vars /\ WF_vars(\E i \in RecIds : RecStep(i))

\* The behaviours in which every call is answered, nobody else touches the
\* targets, every target is initialised, a tick comes after the sweep before
\* it has finished, and the keys at the primary stay as they are once the
\* first sweep is over.  The timer keeps firing and every awaited call
\* returns.
LiveInit ==
    /\ Init
    /\ \A a \in Range(targetVaultAddrs) : tgt[a].need >= 1

\* A rotation of the keys while the first sweep is running.
EarlyRotate == sweeps < 2 /\ Rotate

Respond ==
    \E i \in RecIds :
        \/ ProbeAnswers(i)
        \/ JwtRead(i)
        \/ LoginAnswers(i)
        \/ KeysAnswer(i)
        \/ UnsealAnswers(i)

LiveNext ==
    \/ Main
    \/ LiveTick
    \/ \E i \in RecIds : ProbeAnswers(i)
    \/ \E i \in RecIds : JwtRead(i)
    \/ \E i \in RecIds : LoginAnswers(i)
    \/ \E i \in RecIds : KeysAnswer(i)
    \/ \E i \in RecIds : UnsealAnswers(i)
    \/ EarlyRotate

LiveSpec ==
    /\ LiveInit
    /\ [][LiveNext]_vars
    /\ WF_vars(Main)
    /\ WF_vars(LiveTick)
    /\ WF_vars(Respond)

TypeOK ==
    /\ targetVaultAddrs \in TargetLists
    /\ started \in BOOLEAN /\ timerSet \in BOOLEAN /\ crashed \in BOOLEAN
    /\ ticks \in 0..MaxTicks
    /\ sweeps \in 0..(MaxTicks + 1)
    /\ warns \in 0..(MaxTicks + 1)
    /\ kv \in KvChoices
    /\ tokenCtr \in Nat
    /\ \A i \in RecIds :
          /\ recs[i].target \in Configured
          /\ recs[i].pc \in {"probe", "readjwt", "login", "getkeys", "unseal", "done"}
          /\ recs[i].outcome \in {"none", "AlreadyUnsealed", "Unsealed",
                                  "PartiallySubmitted", "Failed", "Threw"}


\* ------------------------------------------------- observing reconciliations
\* The calls of a reconciliation of one kind, in the order they were made.
CallsOf(r, kind) == SelectSeq(r.calls, LAMBDA c : c.kind = kind)

\* The requests of a reconciliation sent over the network.
Requests(r) == SelectSeq(r.calls, LAMBDA c : c.kind # "readFile")

\* The shares a reconciliation has submitted, in submission order.
Submitted(r) ==
    LET u == CallsOf(r, "unseal") IN [n \in 1..Len(u) |-> u[n].key]

ProbeResult(r) == r.calls[1].result

\* The key fetch of the reconciliation failed: the JWT was unreadable, the
\* login failed, or the retrieval failed or returned no keys.
KeyFetchFailed(r) ==
    \E n \in 1..Len(r.calls) :
        /\ r.calls[n].kind \in {"readFile", "login", "getkeys"}
        /\ r.calls[n].result \in {"error", "notoken", "malformed", "nokeys"}

\* No unseal submission follows one that was answered sealed=false.
StopsWhenUnsealed(r) ==
    LET u == CallsOf(r, "unseal")
    IN  \A n \in 1..Len(u) : u[n].result = "unsealed" => n = Len(u)

\* Every call of the reconciliation was answered without an error.
NoCallFailed(r) ==
    \A n \in 1..Len(r.calls) :
        r.calls[n].result \in {"sealed", "unsealed", "jwt", "token", "keys"}

\* ------------------------------------------------------------------ claims
\* C1: a reconciliation whose probe reports sealed=false makes no login, no
\* key retrieval and no unseal submission: the probe is its only call.
C1_UnsealedProbeIsOnlyRequest ==
    \A i \in RecIds :
        ProbeResult(recs[i]) = "unsealed" =>
            /\ Len(recs[i].calls) = 1
            /\ recs[i].calls[1].kind = "probe"
            /\ recs[i].pc = "done"

C1_Witness ==
    \E i \in RecIds : ProbeResult(recs[i]) = "unsealed" /\ recs[i].pc = "done"


\* C2: a reconciliation whose probe reports sealed=true with threshold T
\* submits at most T shares, and submits nothing after an unseal response
\* that reports sealed=false.
C2_AtMostThresholdShares ==
    \A i \in RecIds :
        (ProbeResult(recs[i]) = "sealed" /\ recs[i].status.hasT) =>
            /\ Len(Submitted(recs[i])) <= recs[i].status.t
            /\ StopsWhenUnsealed(recs[i])

\* What does hold for every reported threshold: at most t || 3 shares, and
\* nothing after sealed=false.
AtMostSelectedShares ==
    \A i \in RecIds :
        /\ Len(Submitted(recs[i])) <= ThresholdOrDefault(recs[i].status)
        /\ StopsWhenUnsealed(recs[i])

\* C3: the shares a reconciliation submits are a prefix of the key sequence
\* its own key fetch returned: same order, nothing skipped, nothing merged.
C3_SubmittedIsPrefixOfFetched ==
    \A i \in RecIds : IsPrefix(Submitted(recs[i]), recs[i].unsealKeys)

C3_Witness ==
    \E i \in RecIds :
        /\ Len(Submitted(recs[i])) >= 3
        /\ Submitted(recs[i])[1] = Submitted(recs[i])[2]
        /\ recs[i].pc = "done"

\* C4: a reconciliation whose key fetch failed submits no share.
C4_NoSubmissionAfterFailedFetch ==
    \A i \in RecIds :
        KeyFetchFailed(recs[i]) =>
            /\ Len(Submitted(recs[i])) = 0
            /\ recs[i].pc = "done"
            /\ recs[i].outcome = "Failed"

C4_Witness ==
    /\ \E i \in RecIds : recs[i].calls[Len(recs[i].calls)].result = "nokeys"
    /\ \E i \in RecIds : recs[i].calls[Len(recs[i].calls)].result = "notoken"

C6_FailedProbeIsOnlyRequest ==
    \A i \in RecIds :
        ProbeResult(recs[i]) = "error" =>
            /\ Len(recs[i].calls) = 1
            /\ recs[i].outcome = "Failed"
            /\ recs[i].pc = "done"

C6_Witness ==
    \E i \in RecIds : ProbeResult(recs[i]) = "error" /\ recs[i].pc = "done"

\* The number of submissions C7 states: the first of the first
\* min(T, |K|) submissions answered sealed=false, or min(T, |K|).
ExpectedSubmissions(r) ==
    LET u == CallsOf(r, "unseal")
        m == Min(r.status.t, Len(r.unsealKeys))
        hits == {n \in 1..Min(m, Len(u)) : u[n].result = "unsealed"}
    IN  IF hits # {} THEN CHOOSE n \in hits : \A k \in hits : n <= k ELSE m

\* C7: with threshold T reported, key sequence K fetched and no request
\* failing, a finished reconciliation has made exactly ExpectedSubmissions
\* submissions, of the first shares of K.
C7_ExactSubmissionCount ==
    \A i \in RecIds :
        (/\ recs[i].pc = "done"
         /\ recs[i].status.hasT
         /\ NoCallFailed(recs[i])
         /\ ProbeResult(recs[i]) = "sealed") =>
            /\ Len(Submitted(recs[i])) = ExpectedSubmissions(recs[i])
            /\ Submitted(recs[i]) = SubSeq(recs[i].unsealKeys, 1, ExpectedSubmissions(recs[i]))

\* C8: when every selected share was submitted and every response reported
\* sealed=true, the reconciliation ends PartiallySubmitted without an error,
\* and the scheduler keeps running.
AllSubmittedStillSealed(r) ==
    LET u == CallsOf(r, "unseal")
    IN  /\ Len(u) > 0
        /\ Len(u) = Len(r.keysToUse)
        /\ \A n \in 1..Len(u) : u[n].result = "sealed"

C8_ExhaustedIsPartiallySubmitted ==
    \A i \in RecIds :
        AllSubmittedStillSealed(recs[i]) =>
            /\ recs[i].pc = "done"
            /\ recs[i].outcome = "PartiallySubmitted"
            /\ recs[i].failedAt = ""
            /\ Submitted(recs[i]) = recs[i].keysToUse
            /\ ~crashed
            /\ timerSet

C8_Witness ==
    \E i \in RecIds :
        /\ AllSubmittedStillSealed(recs[i])
        /\ recs[i].status.t = 3
        /\ Len(recs[i].unsealKeys) = 2

\* C10: main() starts one sweep before any tick, every tick starts exactly
\* one more, and the timer stays armed whatever the reconciliations did.
C10_SweepAtStartupAndPerTick ==
    /\ ~started => (sweeps = 0 /\ ticks = 0 /\ ~timerSet)
    /\ started => (sweeps = ticks + 1 /\ timerSet /\ ~crashed)
    /\ (started /\ ticks < MaxTicks
          /\ Len(recs) + Len(targetVaultAddrs) <= MaxRecs) => ENABLED Tick

C10_Witness ==
    /\ ticks = 1
    /\ \E i, j \in RecIds :
          /\ recs[i].sweep = 1 /\ recs[i].outcome = "Failed"
          /\ recs[j].sweep = 2 /\ recs[j].pc # "probe"


\* Target a is left sealed by a reconciliation that submitted every selected
\* share.
LeftPartiallySubmitted(a) ==
    /\ tgt[a].sealed
    /\ \E i \in RecIds : recs[i].target = a /\ recs[i].outcome = "PartiallySubmitted"

SelectionCompletes(a) ==
    /\ a \in Configured
    /\ LET sel == Slice(ObjectValues(kv), ThresholdOrDefault(SealStatus(tgt[a])))
       IN  Cardinality(tgt[a].held \cup Range(sel)) >= tgt[a].need

C11_EmptyListSweepOnlyWarns ==
    Len(targetVaultAddrs) = 0 =>
        /\ recs = << >>
        /\ warns = sweeps
        /\ tokenCtr = 0
        /\ \A a \in Targets : tgt[a].sealed /\ tgt[a].held = {}

C11_Witness == Len(targetVaultAddrs) = 0 /\ sweeps >= 2 /\ warns >= 2

\* C12: the selection is the first min(|K|, T) fetched shares, T being the
\* threshold of the probe, or 3 exactly when the probe carries no threshold.
C12_SelectionIsMinOfKeysAndThreshold ==
    \A i \in RecIds :
        Len(CallsOf(recs[i], "unseal")) > 0 =>
            Len(recs[i].keysToUse) =
                Min(Len(recs[i].unsealKeys),
                    IF recs[i].status.hasT THEN recs[i].status.t
                                           ELSE DefaultThreshold)

\* C13: of the unseal submissions of a reconciliation only the last can be
\* unanswered, and every one before it was answered sealed=true.
C13_SubmissionsAreSequential ==
    \A i \in RecIds :
        LET u == CallsOf(recs[i], "unseal")
        IN  /\ \A n \in 1..(Len(u) - 1) : u[n].result = "sealed"
            /\ Cardinality({n \in 1..Len(u) : u[n].result = "pending"}) <= 1

C13_Witness ==
    \E i \in RecIds :
        LET u == CallsOf(recs[i], "unseal")
        IN  Len(u) = 3 /\ u[3].result = "pending"


\* C14: a tick is not held back by reconciliations that are still running:
\* while one is running, the timer armed and the bounds of the model not
\* used up, the next sweep can start.
C14_TickNotHeldBackByRunning ==
    (/\ timerSet
     /\ ticks < MaxTicks
     /\ Len(recs) + Len(targetVaultAddrs) <= MaxRecs
     /\ \E i \in RecIds : recs[i].pc # "done") => ENABLED Tick

\* Two reconciliations of one target, started by different sweeps, each with a
\* share answered sealed=true and its next share in flight: whichever first
\* answer came second lies between two submissions of the other one.
C14_Witness ==
    \E i, j \in RecIds :
        /\ recs[i].sweep < recs[j].sweep
        /\ recs[i].target = recs[j].target
        /\ \A k \in {i, j} :
              LET u == CallsOf(recs[k], "unseal")
              IN  Len(u) = 2 /\ u[1].result = "sealed" /\ u[2].result = "pending"

\* C15: a reconciliation that found its target sealed starts one login
\* (getPrimaryVaultToken, once) with at most one login request, and makes at
\* most one key retrieval, with the token of that login; no other
\* reconciliation has the same token; the shares it submits are the first of
\* its own fetch.
C15_OwnLoginOwnKeys ==
    \A i \in RecIds :
        LET r == recs[i]
            reads == CallsOf(r, "readFile")
            logins == CallsOf(r, "login")
            fetches == CallsOf(r, "getkeys")
        IN  /\ Len(reads) = IF ProbeResult(r) = "sealed" THEN 1 ELSE 0
            /\ Len(logins) <= Len(reads)
            /\ Len(fetches) <= Len(logins)
            /\ Len(reads) = 1 /\ reads[1].result = "jwt" => Len(logins) = 1
            /\ Len(fetches) = 1 =>
                  /\ logins[1].result = "token"
                  /\ r.token \in 1..tokenCtr
                  /\ fetches[1].token = r.token
                  /\ \A j \in RecIds \ {i} : recs[j].token # r.token
            /\ Len(fetches) = 0 => r.token = 0
            /\ IsPrefix(Submitted(r), r.unsealKeys)
            /\ Len(Submitted(r)) > 0 => Len(fetches) = 1 /\ fetches[1].result = "keys"

C15_Witness ==
    \E i, j \in RecIds :
        /\ recs[i].token # 0 /\ recs[j].token # 0 /\ recs[i].token # recs[j].token
        /\ recs[i].unsealKeys # << >> /\ recs[j].unsealKeys # << >>
        /\ recs[i].unsealKeys # recs[j].unsealKeys
        /\ Len(Submitted(recs[i])) >= 2 /\ Len(Submitted(recs[j])) >= 2
        /\ Submitted(recs[i])[2] # Submitted(recs[j])[2]

\* C16: after a failed login no key retrieval is requested and nothing is
\* submitted; after an unreadable credential file no request goes to the
\* primary at all.
C16_NoKeyRequestAfterFailedLogin ==
    \A i \in RecIds :
        LET r == recs[i]
            reads == CallsOf(r, "readFile")
            logins == CallsOf(r, "login")
            loginFailed ==
                \/ Len(reads) = 1 /\ reads[1].result = "error"
                \/ Len(logins) = 1 /\ logins[1].result \in {"error", "notoken"}
        IN  /\ Len(reads) = 1 /\ reads[1].result = "error" =>
                  \A n \in 1..Len(r.calls) : r.calls[n].to # Primary
            /\ loginFailed =>
                  /\ CallsOf(r, "getkeys") = << >>
                  /\ CallsOf(r, "unseal") = << >>
                  /\ r.pc = "done" /\ r.outcome = "Failed"

C16_Witness ==
    \E i, j \in RecIds :
        /\ recs[i].failedAt = "readjwt"
        /\ recs[j].failedAt = "login"
        /\ recs[j].calls[Len(recs[j].calls)].result = "notoken"

\* C17: the requests of a reconciliation are the probe, the login, the key
\* retrieval and then unseal submissions, each sent after the one before was
\* answered; a share is submitted only after the probe said sealed=true and
\* the key retrieval returned at least one key.
RequestKind(n) ==
    IF n = 1 THEN "probe" ELSE IF n = 2 THEN "login"
    ELSE IF n = 3 THEN "getkeys" ELSE "unseal"

C17_RequestsInFixedOrder ==
    \A i \in RecIds :
        LET r == recs[i]
            q == Requests(r)
        IN  /\ \A n \in 1..Len(q) : q[n].kind = RequestKind(n)
            /\ \A n \in 1..(Len(r.calls) - 1) : r.calls[n].result # "pending"
            /\ Len(q) >= 4 =>
                  /\ q[1].result = "sealed"
                  /\ q[2].result = "token"
                  /\ q[3].result = "keys"
                  /\ Len(r.unsealKeys) > 0

C17_Witness ==
    \E i \in RecIds :
        Len(Requests(recs[i])) >= 5 /\ recs[i].outcome = "Unsealed"

\* C19: a failed unseal submission is the last call of its reconciliation:
\* the shares after it are not submitted, and the reconciliation ends Failed
\* with the process still running.
C19_FailedSubmissionStops ==
    \A i \in RecIds :
        \A n \in 1..Len(recs[i].calls) :
            (recs[i].calls[n].kind = "unseal" /\ recs[i].calls[n].result = "error") =>
                /\ n = Len(recs[i].calls)
                /\ recs[i].pc = "done"
                /\ recs[i].outcome = "Failed"
                /\ recs[i].failedAt = "unseal"
                /\ ~crashed

C19_Witness ==
    \E i \in RecIds :
        LET u == CallsOf(recs[i], "unseal")
        IN  /\ Len(u) = 2
            /\ u[2].result = "error"
            /\ Len(recs[i].keysToUse) > 2
            /\ recs[i].outcome = "Failed"


\* C18: every reconciliation ends, with one of the four outcomes, which it
\* then keeps; while it runs it has none; and it submits no more shares than
\* it selected.
Outcomes == {"AlreadyUnsealed", "Unsealed", "PartiallySubmitted", "Failed"}

C18_TerminatesWithOneOutcome ==
    /\ [](\A i \in RecIds :
            /\ recs[i].pc = "done" => recs[i].outcome \in Outcomes
            /\ recs[i].pc # "done" => recs[i].outcome = "none"
            /\ Len(CallsOf(recs[i], "unseal")) <= Len(recs[i].keysToUse)
            /\ Len(recs[i].keysToUse) <= Len(recs[i].unsealKeys))
    /\ [][\A i \in RecIds : recs[i].pc = "done" => recs'[i] = recs[i]]_vars
    /\ \A n \in 1..MaxRecs :
          (n \in RecIds /\ recs[n].pc # "done") ~> (n \in RecIds /\ recs[n].pc = "done")

\* Both reconciliations of a run have ended, one with its shares used up and
\* one after a submission that unsealed the target or failed.
C18_Witness ==
    /\ \A i \in RecIds : recs[i].pc = "done"
    /\ \E i, j \in RecIds :
          /\ recs[i].outcome = "PartiallySubmitted"
          /\ recs[j].outcome \in {"Unsealed", "Failed"}
          /\ Len(CallsOf(recs[j], "unseal")) > 0

\* C20: a reconciliation sends its probe and its unseal submissions to its own
\* target and everything else to the primary (or reads the credential file);
\* a step of one reconciliation leaves every other reconciliation, every
\* other target and the configuration as they were.
C20_OnlyOwnTargetAndPrimary ==
    /\ [](\A i \in RecIds : \A n \in 1..Len(recs[i].calls) :
            LET c == recs[i].calls[n]
            IN  /\ c.kind \in {"probe", "unseal"} => c.to = recs[i].target
                /\ c.kind \in {"login", "getkeys"} => c.to = Primary
                /\ c.kind = "readFile" => c.to = "fs"
                /\ c.to \in {recs[i].target, Primary, "fs"})
    /\ [][/\ targetVaultAddrs' = targetVaultAddrs
          /\ \A i \in RecIds :
                RecStep(i) =>
                    /\ \A j \in RecIds \ {i} : recs'[j] = recs[j]
                    /\ Len(recs') = Len(recs)
                    /\ \A a \in Targets \ {recs[i].target} : tgt'[a] = tgt[a]]_vars

C20_Witness ==
    \E i, j \in RecIds :
        /\ recs[i].target = "A" /\ recs[j].target = "B"
        /\ recs[i].sweep = recs[j].sweep
        /\ recs[i].outcome = "Unsealed" /\ recs[j].pc = "unseal"
        /\ ~tgt["A"].sealed /\ tgt["B"].sealed /\ tgt["B"].held # {}

====
